---- MODULE Spec2Model ----
(***************************************************************************)
(* Model of the source switcher: the persisted SwitcherState record        *)
(* (state.ts), the event-driven rotation scheduler (rotation.ts), the      *)
(* pipeline client's switchToSource (pipeline.ts) and the configuration    *)
(* endpoints of the control API (api.ts).                                  *)
(*                                                                         *)
(* The program runs on one JavaScript event loop.  A step of the model is  *)
(* one event-loop turn: a handler (request, timer callback, I/O            *)
(* completion) runs from where it resumes to where it next suspends on     *)
(* real I/O (the state-file write, the HTTP switch request).  Pending      *)
(* continuations are the records of the bag tasks.  saveState's two        *)
(* awaits (mkdir, writeTextFile) are one wait: the record is serialised    *)
(* and written in the turn that completes it.                              *)
(***************************************************************************)
EXTENDS Bags, FiniteSets, Integers, Sequences, TLC

VARIABLES
    proc,          \* "starting" | "serving" (API up, loop not started) | "running"
                   \*   | "exited" | "crashed"
    state,         \* the global SwitcherState record
    persisted,     \* content of data/state.json; <<>> when the file is absent
    sources,       \* the source list fetched once by main() and passed to the loop
    currentTimer,  \* rotation.ts currentTimer: id of a timer, or null
    timers,        \* armed timers that have neither fired nor been cleared: id -> delay ms
    shouldStop,    \* rotation.ts shouldStop
    listeners,     \* listeners registered for "stateChanged"
    tasks,         \* bag of suspended async continuations
    hist,          \* observation only: counts of what has happened so far, the clock,
                   \*   removed: listeners taken off and not put on again
                   \*   provider: the source list the pipeline reports now
                   \*   (<<>> until main has asked for it)
                   \*   fresh: a processRotation run started after the last
                   \*   configuration mutation
                   \*   mark: a notification was delivered during a run and
                   \*   no run has returned since
    ev             \* observation only: what the last turn did

vars == <<proc, state, persisted, sources, currentTimer, timers, shouldStop,
          listeners, tasks, hist, ev>>

(***************************************************************************)
(* Values                                                                  *)
(***************************************************************************)
\* JavaScript null (ids, indices, timestamps and timer ids are all >= 0)
null == -1
\* JavaScript NaN
NaN == -2

\* Bounds of the exploration
MaxCalls == 1
MaxFires == 1
MaxFail == 1
MaxBurst == 2

RETRY_MS == 5000

Fields == {"rotationEnabled", "fixedSourceId", "selectedCameraIds", "rotationSchedule",
           "currentSourceId", "lastSwitchTime", "currentScheduleIndex"}

defaultState ==
    [rotationEnabled |-> FALSE, fixedSourceId |-> null, selectedCameraIds |-> <<>>,
     rotationSchedule |-> <<>>, currentSourceId |-> null, lastSwitchTime |-> null,
     currentScheduleIndex |-> null]

Item(c, d) == [cameraId |-> c, durationSeconds |-> d]

\* JSON null where the schedule array is expected (a value that is no
\* schedule of a request or of a state file); reading its length or one of
\* its elements throws a TypeError
NullSchedule == <<Item(null, null)>>

\* Source lists the pipeline can report at startup (id, type, enabled,
\* healthy)
Src(i, t, e, h) == [id |-> i, source_type |-> t, enabled |-> e, is_healthy |-> h]
SourceLists ==
    { << Src(1, "srt", TRUE, TRUE), Src(2, "srt", TRUE, TRUE), Src(3, "srt", FALSE, TRUE),
         Src(4, "file", TRUE, TRUE) >> }

\* Every list of at most two sources with ids 1 and 2, of either type,
\* enabled or not, healthy or not
SourceVariants(i) == { Src(i, t, e, h) : t \in {"srt", "file"}, e \in BOOLEAN, h \in BOOLEAN }
AnySourceLists ==
    {<<>>} \cup { <<a>> : a \in SourceVariants(1) \cup SourceVariants(2) }
           \cup { <<a, b>> : a \in SourceVariants(1), b \in SourceVariants(2) }
           \cup { <<b, a>> : a \in SourceVariants(1), b \in SourceVariants(2) }

\* Schedules and camera selections a client sends (source 3 is disabled,
\* source 4 is no srt source and its item carries a duration of 0)
Schedules == { <<>>, <<Item(3, 30), Item(4, 0)>> }
CameraIdLists == { <<1>> }

\* Request bodies of PUT /api/state (any subset of the configuration fields;
\* the first one names a disabled source as the fixed source, and the
\* operational fields as well)
StateBodies ==
    { [rotationEnabled |-> FALSE, fixedSourceId |-> 3, currentSourceId |-> 2,
       lastSwitchTime |-> 9, currentScheduleIndex |-> 1],
      [rotationEnabled |-> FALSE, fixedSourceId |-> 2],
      [rotationEnabled |-> TRUE, rotationSchedule |-> <<Item(1, 60), Item(2, 120)>>],
      [rotationSchedule |-> <<>>],
      [rotationEnabled |-> TRUE, selectedCameraIds |-> <<1>>, rotationSchedule |-> <<Item(3, 30)>>] }

\* Contents of data/state.json found at startup
InitSnapshots ==
    { <<>>,
      [rotationEnabled |-> TRUE, rotationSchedule |-> <<Item(1, 60), Item(2, 120)>>],
      [defaultState EXCEPT !.rotationEnabled = TRUE,
                           !.rotationSchedule = <<Item(1, 60), Item(2, 120)>>,
                           !.currentSourceId = 1, !.lastSwitchTime = 0,
                           !.currentScheduleIndex = 0] }

\* Contents of data/state.json for loadState alone: any subset of the seven
\* fields, each with a value other than its default or, where the type
\* allows it, an explicit null.  <<>> stands for an absent file as well as
\* for a file holding {}.
Sample ==
    [rotationEnabled |-> TRUE, fixedSourceId |-> 2, selectedCameraIds |-> <<1>>,
     rotationSchedule |-> <<Item(1, 60)>>, currentSourceId |-> 1, lastSwitchTime |-> 0,
     currentScheduleIndex |-> 0]
Nullable == {"fixedSourceId", "currentSourceId", "lastSwitchTime", "currentScheduleIndex"}
LoadSnapshots ==
    { [f \in S |-> IF f \in N THEN null ELSE Sample[f]] :
        S \in SUBSET Fields, N \in SUBSET Nullable }

\* Contents of data/state.json with rotation enabled: every camera of the
\* schedule available, or a disabled camera and a file source ahead of
\* an available one
LiveSnapshots ==
    { [rotationEnabled |-> TRUE, rotationSchedule |-> <<Item(1, 60), Item(2, 120)>>],
      [rotationEnabled |-> TRUE,
       rotationSchedule |-> <<Item(3, 30), Item(4, 0), Item(2, 120)>>] }

\* Contents of data/state.json with rotation enabled, cameras 1 and 2
\* scheduled, and no camera, camera 1 or both cameras selected
SelectionSnapshots ==
    { [rotationEnabled |-> TRUE, rotationSchedule |-> <<Item(1, 60), Item(2, 120)>>,
       selectedCameraIds |-> sel] : sel \in { <<>>, <<1>>, <<2, 1>> } }

(***************************************************************************)
(* JavaScript arithmetic on the schedule index                             *)
(***************************************************************************)
ToNumber(v) == IF v = null THEN 0 ELSE v

\* a % n
JSMod(a, n) == IF a = NaN \/ n = 0 THEN NaN ELSE ToNumber(a) % n

\* a + 1
JSInc(a) == IF a = NaN THEN NaN ELSE ToNumber(a) + 1

\* a >= n  (false for NaN)
JSGe(a, n) == a # NaN /\ ToNumber(a) >= n

SeqToSet(s) == { s[i] : i \in DOMAIN s }

(***************************************************************************)
(* state.ts                                                                *)
(***************************************************************************)
\* JSON.stringify(state): NaN is written as null
JSONStringify(s) ==
    [s EXCEPT !.currentScheduleIndex = IF @ = NaN THEN null ELSE @]

\* Variant of loadState that never reads currentScheduleIndex from the file
loadStateWithoutIndex(s, loaded) ==
    [f \in Fields |-> IF f \in DOMAIN loaded /\ f # "currentScheduleIndex"
                      THEN loaded[f] ELSE s[f]]

\* loadState: fields present in the file override the record, others stay
loadState(s, loaded) ==
    [f \in Fields |-> IF f \in DOMAIN loaded THEN loaded[f] ELSE s[f]]

\* A suspended continuation.  pc names the await it returns to (L122f is
\* line 122 reached after switchToSource returned false), io the operation
\* it waits for.
Task(kind, pc, io, emitEvent, sourceId, duration) ==
    [kind |-> kind, pc |-> pc, io |-> io, emitEvent |-> emitEvent,
     sourceId |-> sourceId, duration |-> duration]

\* The rotation loop's listener and two listeners of other client code
ListenerNames == {"stateChangeHandler", "listener1", "listener2"}

\* Nothing observed yet in this turn
NoEvent ==
    [opSave |-> FALSE,    \* a saveState(false) returned
     cfgOk |-> FALSE,     \* a configuration request was answered 200
     setSched |-> FALSE,  \* a request replaced rotationSchedule
     prevIdx |-> null,    \*   currentScheduleIndex before that request
     prevLen |-> null,    \*   schedule length before that request
     swId |-> null,       \* source id of the switch request that settled
     swOk |-> FALSE,      \*   and whether the pipeline answered 2xx
     pc |-> "",           \* the await whose continuation ran in this turn
     dur |-> null,        \*   and the durationSeconds that run had read
     wrFail |-> FALSE,    \* the state-file write of this turn's saveState failed
     srcFail |-> FALSE,   \* main's getSources returned null
     fixed |-> FALSE,     \* handleFixedSource ran
     lookup |-> null,     \* position of the schedule item a run looked up
     ep |-> "",           \* endpoint of a request whose Authorization header is
                          \*   not "Bearer <API_TOKEN>"
     status |-> 0,        \*   and the status of its response
     body |-> <<>>,       \* body of the PUT /api/state request handled in this turn
     calls |-> [l \in ListenerNames |-> 0]]  \* times each listener was invoked

\* The mutable program state as one record, threaded through the code
World ==
    [proc |-> proc, state |-> state, persisted |-> persisted, sources |-> sources,
     currentTimer |-> currentTimer, timers |-> timers, shouldStop |-> shouldStop,
     listeners |-> listeners, tasks |-> tasks, hist |-> hist, ev |-> NoEvent]

\* processRotation runs of w suspended at an await, and runs that returned
InProgress(w) ==
    LET rot == { t \in BagToSet(w.tasks) : t.kind = "rot" }
    IN  BagCardinality([t \in rot |-> CopiesIn(t, w.tasks)])

Returned(w) == w.hist.nRuns - InProgress(w)

\* The turn ends in w
Commit(w) ==
    /\ proc' = w.proc
    /\ state' = w.state
    /\ persisted' = w.persisted
    /\ sources' = w.sources
    /\ currentTimer' = w.currentTimer
    /\ timers' = w.timers
    /\ shouldStop' = w.shouldStop
    /\ listeners' = w.listeners
    /\ tasks' = w.tasks
    /\ hist' = [w.hist EXCEPT !.mark = @ /\ Returned(w) = Returned(World)]
    /\ ev' = w.ev

Count(w, c) == [w EXCEPT !.hist[c] = @ + 1]

Suspend(w, t) == [w EXCEPT !.tasks = @ (+) SetToBag({t})]

\* Variant of saveState that emits whatever emitEvent says
saveStateAlwaysEmits(w, kind, pc, emitEvent, sourceId, duration) ==
    Suspend(w, Task(kind, pc, "save", TRUE, sourceId, duration))

\* saveState(emitEvent) up to its first await
saveState(w, kind, pc, emitEvent, sourceId, duration) ==
    Suspend(w, Task(kind, pc, "save", emitEvent, sourceId, duration))

(***************************************************************************)
(* rotation.ts, pipeline.ts                                                *)
(***************************************************************************)
TimerIds(w) == { t.id : t \in w.timers }

\* setTimeout: a fresh handle, stored in currentTimer by the caller
setTimeout(w, delay) ==
    LET id == CHOOSE n \in 1..(Cardinality(w.timers) + 1) : n \notin TimerIds(w)
    IN  [w EXCEPT !.timers = @ \cup {[id |-> id, delay |-> delay]},
                  !.currentTimer = id]

cancelCurrentTimer(w) ==
    IF w.currentTimer # null
    THEN [w EXCEPT !.timers = { t \in @ : t.id # w.currentTimer },
                   !.currentTimer = null]
    ELSE w

\* Variant of getAvailableSources that ignores selectedCameraIds
getEnabledSrtSources(st, srcs) ==
    LET isSrt(s) == s.enabled /\ s.source_type = "srt"
    IN  SelectSeq(srcs, isSrt)

getAvailableSources(st, srcs) ==
    LET isSrt(s) == s.enabled /\ s.source_type = "srt"
        selected(s) == s.id \in SeqToSet(st.selectedCameraIds)
        availableSources == SelectSeq(srcs, isSrt)
    IN  IF Len(st.selectedCameraIds) > 0
        THEN SelectSeq(availableSources, selected)
        ELSE availableSources

\* switchToSource up to its await fetch(PUT /source/active)
switchToSource(w, kind, pc, sourceId, duration) ==
    Suspend(IF kind = "rot" THEN Count(w, "nSwitchReq") ELSE w,
            Task(kind, pc, "fetch", FALSE, sourceId, duration))

\* notifyCameraAPI touches no switcher state
notifyCameraAPI(w) == w

handleFixedSource(w0) ==
    LET w == [w0 EXCEPT !.ev.fixed = TRUE]
        fixed == { s \in SeqToSet(w.sources) : s.id = w.state.fixedSourceId }
    IN  IF /\ w.state.fixedSourceId # null
           /\ \E s \in fixed : s.enabled
           /\ w.state.currentSourceId # w.state.fixedSourceId
        THEN switchToSource(w, "rot", "L54", w.state.fixedSourceId, 0)
        ELSE w

\* processRotation from "Get current schedule item" (line 106) on
rotateStep(w) ==
    LET st == w.state
        len == Len(st.rotationSchedule)
        k == JSMod(st.currentScheduleIndex, len)
    IN  IF st.rotationSchedule = NullSchedule \/ k = NaN
        THEN \* scheduleItem is undefined: reading .cameraId throws, the
             \* promise rejects unhandled and the runtime terminates
             [w EXCEPT !.proc = "crashed"]
        ELSE LET scheduleItem == st.rotationSchedule[k + 1]
                 found == \E s \in SeqToSet(getAvailableSources(st, w.sources)) :
                              s.id = scheduleItem.cameraId
                 wk == [w EXCEPT !.ev.lookup = k]
             IN  IF found
                 THEN switchToSource([wk EXCEPT !.hist.lastReqIdx = k], "rot", "L118",
                                     scheduleItem.cameraId, scheduleItem.durationSeconds)
                 ELSE saveState([wk EXCEPT !.state.currentScheduleIndex =
                                              JSMod(JSInc(st.currentScheduleIndex), len)],
                                "rot", "L136", FALSE, scheduleItem.cameraId,
                                scheduleItem.durationSeconds)

processRotation(w0) ==
    LET w == [Count(w0, "nRuns") EXCEPT !.hist.fresh = TRUE]
        w1 == cancelCurrentTimer(w)
        st == w1.state
    IN  IF w.shouldStop THEN w
        ELSE IF ~st.rotationEnabled
        THEN IF st.currentScheduleIndex # null
             THEN saveState([w1 EXCEPT !.state.currentScheduleIndex = null],
                            "rot", "L86", FALSE, null, 0)
             ELSE handleFixedSource(w1)
        ELSE IF st.rotationSchedule = NullSchedule THEN [w1 EXCEPT !.proc = "crashed"]
        ELSE IF Len(st.rotationSchedule) = 0 THEN w1
        ELSE IF \/ st.currentScheduleIndex = null
                \/ JSGe(st.currentScheduleIndex, Len(st.rotationSchedule))
        THEN saveState([w1 EXCEPT !.state.currentScheduleIndex = 0],
                       "rot", "L103", FALSE, null, 0)
        ELSE rotateStep(w1)

\* Variant of handleStateChange that ignores a notification delivered
\* while a run is in progress
handleStateChangeUnlessBusy(w) ==
    IF InProgress(w) > 0
    THEN w
    ELSE processRotation(cancelCurrentTimer(Count(w, "nNotified")))

handleStateChange(w) ==
    LET w1 == [Count(w, "nNotified") EXCEPT !.hist.mark = InProgress(w) > 0]
    IN  processRotation(cancelCurrentTimer(w1))

\* EventEmitter.on: the listeners of an event are a Set
on(ls, listener) == ls \cup {listener}

\* Variant of off that leaves the listener registered
offKeepsListener(ls, listener) == ls

\* EventEmitter.off
off(ls, listener) == ls \ {listener}

\* A listener is called: the loop's listener re-evaluates, the others only
\* count their calls
invoke(w, listener) ==
    LET w1 == [w EXCEPT !.ev.calls[listener] = @ + 1]
    IN  IF listener = "stateChangeHandler" THEN handleStateChange(w1) ELSE w1

RECURSIVE forEach(_, _)
forEach(w, ls) ==
    IF ls = {} THEN w
    ELSE LET listener == CHOOSE l \in ls : TRUE
         IN  forEach(invoke(w, listener), ls \ {listener})

\* stateEvents.emit("stateChanged"): every registered listener runs
emit(w) == forEach(Count(w, "nEmit"), w.listeners)

\* Variant of afterSave that arms the timer without advancing the index
afterSaveNoAdvance(w0, t) ==
    LET w == IF t.kind = "api" THEN w0 ELSE [w0 EXCEPT !.ev.opSave = TRUE]
    IN  CASE t.pc = "L86"   -> handleFixedSource(w)
          [] t.pc = "L54s"  -> notifyCameraAPI(w)
          [] t.pc = "L103"  -> rotateStep(w)
          [] t.pc = "L118s" -> saveState(notifyCameraAPI(w), "rot", "L122", FALSE,
                                         t.sourceId, t.duration)
          [] t.pc \in {"L122", "L122f"} -> setTimeout(w, t.duration * 1000)
          [] t.pc = "L136"  -> setTimeout(w, RETRY_MS)
          [] OTHER          -> [w EXCEPT !.ev.cfgOk = TRUE]

\* Variant of afterSave whose retry after a skipped item waits for the
\* item's duration
afterSaveRetryFullDuration(w0, t) ==
    LET w == IF t.kind = "api" THEN w0 ELSE [w0 EXCEPT !.ev.opSave = TRUE]
        st == w.state
    IN  CASE t.pc = "L86"   -> handleFixedSource(w)
          [] t.pc = "L54s"  -> notifyCameraAPI(w)
          [] t.pc = "L103"  -> rotateStep(w)
          [] t.pc = "L118s" -> saveState(notifyCameraAPI(w), "rot", "L122", FALSE,
                                         t.sourceId, t.duration)
          [] t.pc \in {"L122", "L122f"} ->
                setTimeout([w EXCEPT !.state.currentScheduleIndex =
                                JSMod(JSInc(st.currentScheduleIndex), Len(st.rotationSchedule))],
                           t.duration * 1000)
          [] t.pc = "L136"  -> setTimeout(w, t.duration * 1000)
          [] OTHER          -> [w EXCEPT !.ev.cfgOk = TRUE]

\* Variant of afterSave that arms no timer after a switch
afterSaveNoNextRotation(w0, t) ==
    LET w == IF t.kind = "api" THEN w0 ELSE [w0 EXCEPT !.ev.opSave = TRUE]
        st == w.state
    IN  CASE t.pc = "L86"   -> handleFixedSource(w)
          [] t.pc = "L54s"  -> notifyCameraAPI(w)
          [] t.pc = "L103"  -> rotateStep(w)
          [] t.pc = "L118s" -> saveState(notifyCameraAPI(w), "rot", "L122", FALSE,
                                         t.sourceId, t.duration)
          [] t.pc \in {"L122", "L122f"} ->
                [w EXCEPT !.state.currentScheduleIndex =
                      JSMod(JSInc(st.currentScheduleIndex), Len(st.rotationSchedule))]
          [] t.pc = "L136"  -> setTimeout(w, RETRY_MS)
          [] OTHER          -> [w EXCEPT !.ev.cfgOk = TRUE]

\* Variant of afterSave that arms no timer after a skipped item
afterSaveNoRetry(w0, t) ==
    LET w == IF t.kind = "api" THEN w0 ELSE [w0 EXCEPT !.ev.opSave = TRUE]
        st == w.state
    IN  CASE t.pc = "L86"   -> handleFixedSource(w)
          [] t.pc = "L54s"  -> notifyCameraAPI(w)
          [] t.pc = "L103"  -> rotateStep(w)
          [] t.pc = "L118s" -> saveState(notifyCameraAPI(w), "rot", "L122", FALSE,
                                         t.sourceId, t.duration)
          [] t.pc \in {"L122", "L122f"} ->
                setTimeout([w EXCEPT !.state.currentScheduleIndex =
                                JSMod(JSInc(st.currentScheduleIndex), Len(st.rotationSchedule))],
                           t.duration * 1000)
          [] t.pc = "L136"  -> w
          [] OTHER          -> [w EXCEPT !.ev.cfgOk = TRUE]

\* The code after an awaited saveState(...) returns
afterSave(w0, t) ==
    LET w == IF t.kind = "api" THEN w0 ELSE [w0 EXCEPT !.ev.opSave = TRUE]
        st == w.state
    IN  CASE t.pc = "L86"   -> handleFixedSource(w)
          [] t.pc = "L54s"  -> notifyCameraAPI(w)
          [] t.pc = "L103"  -> rotateStep(w)
          [] t.pc = "L118s" -> saveState(notifyCameraAPI(w), "rot", "L122", FALSE,
                                         t.sourceId, t.duration)
          [] t.pc \in {"L122", "L122f"} ->
                IF st.rotationSchedule = NullSchedule
                THEN [w EXCEPT !.proc = "crashed"]
                ELSE
                setTimeout([w EXCEPT !.state.currentScheduleIndex =
                                JSMod(JSInc(st.currentScheduleIndex), Len(st.rotationSchedule))],
                           t.duration * 1000)
          [] t.pc = "L136"  -> setTimeout(w, RETRY_MS)
          [] t.pc = "A145s" -> [notifyCameraAPI(w) EXCEPT !.ev.status = 200]
          [] OTHER          -> [w EXCEPT !.ev.cfgOk = TRUE]

\* Variant of afterFetch that records the switch before looking at
\* response.ok
afterFetchUnchecked(w, t, ok) ==
    LET w1 == [w EXCEPT !.state.currentSourceId = t.sourceId,
                        !.state.lastSwitchTime = w.hist.now]
    IN  IF ok
        THEN saveState(w1, t.kind, IF t.pc = "L54" THEN "L54s" ELSE "L118s", FALSE,
                       t.sourceId, t.duration)
        ELSE IF t.pc = "L54" THEN w1
             ELSE saveState(w1, "rot", "L122f", FALSE, t.sourceId, t.duration)

\* Variant of afterFetch whose state update is saved with saveState()
afterFetchNotifying(w, t, ok) ==
    IF ok
    THEN saveState([w EXCEPT !.state.currentSourceId = t.sourceId,
                             !.state.lastSwitchTime = w.hist.now],
                   t.kind, IF t.pc = "L54" THEN "L54s" ELSE "L118s", TRUE,
                   t.sourceId, t.duration)
    ELSE IF t.pc = "L54" THEN w
         ELSE saveState(w, "rot", "L122f", FALSE, t.sourceId, t.duration)

\* Variant of afterFetch that also pins the source it switched to as
\* the fixed source
afterFetchPinsSource(w, t, ok) ==
    IF ok
    THEN saveState([w EXCEPT !.state.currentSourceId = t.sourceId,
                             !.state.lastSwitchTime = w.hist.now,
                             !.state.fixedSourceId = t.sourceId],
                   t.kind, IF t.pc = "L54" THEN "L54s" ELSE "L118s", FALSE,
                   t.sourceId, t.duration)
    ELSE IF t.pc = "L54" THEN w
         ELSE saveState(w, "rot", "L122f", FALSE, t.sourceId, t.duration)

\* The code after switchToSource's fetch settles
afterFetch(w, t, ok) ==
    IF ok
    THEN LET now == w.hist.now
         IN  saveState([w EXCEPT !.state.currentSourceId = t.sourceId,
                                 !.state.lastSwitchTime = now],
                       t.kind,
                       CASE t.pc = "L54"  -> "L54s"
                         [] t.pc = "A145" -> "A145s"
                         [] OTHER         -> "L118s",
                       FALSE, t.sourceId, t.duration)
    ELSE IF t.pc = "L54" THEN w
         ELSE IF t.pc = "A145" THEN [w EXCEPT !.ev.status = 500]
         ELSE saveState(w, "rot", "L122f", FALSE, t.sourceId, t.duration)

(***************************************************************************)
(* api.ts: the configuration endpoints                                     *)
(***************************************************************************)
\* config.apiToken
apiToken == "secret"

\* Authorization headers, as the words they consist of (<<>>: no header)
\* that are not "Bearer <API_TOKEN>" and do not carry the token
BadHeaders ==
    { <<>>, <<"Bearer">>, <<"Bearer", "wrong">>, <<"wrong">>, <<"Basic", "secret">>,
      <<"Bearer", "secret", "x">> }

\* Method and path of a request; the last one has no route
Endpoints ==
    { "GET /api/health", "GET /api/state", "PUT /api/state", "GET /api/sources",
      "PUT /api/source/active", "PUT /api/rotation/schedule",
      "PUT /api/rotation/cameras", "PUT /api/health" }

\* Variant of authenticateRequest that accepts any header that is present
authenticateAnyHeader(authHeader) == authHeader # <<>>

\* authenticateRequest: the header with a leading "Bearer " removed must
\* equal the configured token
authenticateRequest(authHeader) ==
    IF apiToken = "" THEN FALSE
    ELSE IF authHeader = <<>> THEN FALSE
    ELSE LET token == IF Head(authHeader) = "Bearer" THEN Tail(authHeader)
                      ELSE authHeader
         IN  token = <<apiToken>>

\* PUT /api/state, lines 85-96: replace the schedule, maybe reset the index
putStateSchedule(st, schedule) ==
    LET oldScheduleLength == Len(st.rotationSchedule)
        st1 == [st EXCEPT !.rotationSchedule = schedule]
    IN  IF st.rotationSchedule = NullSchedule THEN st   \* line 86 throws
        ELSE IF schedule = NullSchedule THEN st1        \* line 91 throws, or 90-95 skipped
        ELSE IF /\ st1.currentScheduleIndex # null
                /\ \/ oldScheduleLength # Len(schedule)
                   \/ JSGe(st1.currentScheduleIndex, Len(schedule))
        THEN [st1 EXCEPT !.currentScheduleIndex = IF Len(schedule) > 0 THEN 0 ELSE null]
        ELSE st1

\* PUT /api/state, lines 85-96: reading .length of a null schedule throws
putStateThrows(st, body) ==
    /\ "rotationSchedule" \in DOMAIN body
    /\ \/ st.rotationSchedule = NullSchedule
       \/ body.rotationSchedule = NullSchedule /\ st.currentScheduleIndex # null

\* Variant of putState that applies every field the body names
putStateAnyField(st, body) ==
    [f \in Fields |-> IF f \in DOMAIN body THEN body[f] ELSE st[f]]

\* PUT /api/state, lines 76-96: apply the fields the body carries
putState(st, body) ==
    LET s1 == IF "rotationEnabled" \in DOMAIN body
              THEN [st EXCEPT !.rotationEnabled = body.rotationEnabled] ELSE st
        s2 == IF "fixedSourceId" \in DOMAIN body
              THEN [s1 EXCEPT !.fixedSourceId = body.fixedSourceId] ELSE s1
        s3 == IF "selectedCameraIds" \in DOMAIN body
              THEN [s2 EXCEPT !.selectedCameraIds = body.selectedCameraIds] ELSE s2
    IN  IF "rotationSchedule" \in DOMAIN body
        THEN putStateSchedule(s3, body.rotationSchedule) ELSE s3

\* Variant of putRotationSchedule that never touches the index
putRotationScheduleKeepsIndex(st, schedule) ==
    [st EXCEPT !.rotationSchedule = schedule]

\* Variant of putRotationSchedule that restarts the rotation whenever a
\* schedule is set
putRotationScheduleResetsIndex(st, schedule) ==
    [st EXCEPT !.rotationSchedule = schedule,
               !.currentScheduleIndex = IF Len(schedule) > 0 THEN 0 ELSE null]

\* PUT /api/rotation/schedule, lines 168-177
putRotationSchedule(st, schedule) ==
    LET oldScheduleLength == Len(st.rotationSchedule)
        st1 == [st EXCEPT !.rotationSchedule = schedule]
    IN  IF /\ st1.currentScheduleIndex # null
           /\ \/ oldScheduleLength # Len(schedule)
              \/ JSGe(st1.currentScheduleIndex, Len(schedule))
        THEN [st1 EXCEPT !.currentScheduleIndex = IF Len(schedule) > 0 THEN 0 ELSE null]
        ELSE st1

\* PUT /api/rotation/cameras, line 194
putRotationCameras(st, cameraIds) == [st EXCEPT !.selectedCameraIds = cameraIds]

(***************************************************************************)
(* Initial state: main() has loaded the state file; the source list is not *)
(* fetched, the API server and the rotation loop have not started.         *)
(***************************************************************************)
InitFrom(snapshots) ==
    /\ proc = "starting"
    /\ persisted \in snapshots
    /\ state = loadState(defaultState, persisted)
    /\ sources = <<>>
    /\ currentTimer = null
    /\ timers = {}
    /\ shouldStop = FALSE
    /\ listeners = {}
    /\ tasks = EmptyBag
    /\ hist = [nCalls |-> 0, nFires |-> 0, nFail |-> 0, nEmit |-> 0, nNotified |-> 0,
               nRuns |-> 0, nSwitchReq |-> 0, now |-> 0, lastReqIdx |-> null,
               fresh |-> FALSE, mark |-> FALSE, removed |-> {}, provider |-> <<>>]
    /\ ev = NoEvent

Init == InitFrom(InitSnapshots)

\* The state at module load, before main() calls loadState
InitLoad ==
    /\ proc = "loading"
    /\ persisted \in LoadSnapshots
    /\ state = defaultState
    /\ sources = <<>>
    /\ currentTimer = null
    /\ timers = {}
    /\ shouldStop = FALSE
    /\ listeners = {}
    /\ tasks = EmptyBag
    /\ hist = [nCalls |-> 0, nFires |-> 0, nFail |-> 0, nEmit |-> 0, nNotified |-> 0,
               nRuns |-> 0, nSwitchReq |-> 0, now |-> 0, lastReqIdx |-> null,
               fresh |-> FALSE, mark |-> FALSE, removed |-> {}, provider |-> <<>>]
    /\ ev = NoEvent

Alive == proc \in {"serving", "running"}

ReplacedSchedule ==
    [NoEvent EXCEPT !.setSched = TRUE, !.prevIdx = state.currentScheduleIndex,
                    !.prevLen = Len(state.rotationSchedule)]

\* Deno.exit: the process is gone, with its timers and pending continuations
DenoExit(w) == [w EXCEPT !.proc = "exited", !.timers = {}, !.tasks = EmptyBag]

(***************************************************************************)
(* Actions: one per event-loop turn                                        *)
(***************************************************************************)
\* main: the source list is fetched once; when getSources returns null
\* (non-2xx response, network error or timeout) the process exits with 1,
\* otherwise the API server starts
MainFrom(lists) ==
    /\ proc = "starting"
    /\ \E ok \in BOOLEAN :
         IF ok
         THEN \E srcs \in lists :
                  Commit([World EXCEPT !.proc = "serving", !.sources = srcs,
                                       !.hist.provider = srcs])
         ELSE Commit([DenoExit(World) EXCEPT !.ev.srcFail = TRUE])

Main == MainFrom(SourceLists)

\* runRotationLoop: register the listener, start the first run
Start ==
    /\ proc = "serving"
    /\ Commit(processRotation([World EXCEPT !.proc = "running",
                                            !.listeners = on(@, "stateChangeHandler")]))

\* A timer expires: its callback clears currentTimer and re-evaluates
timerCallback(w, t) ==
    processRotation(Count([w EXCEPT !.timers = @ \ {t}, !.currentTimer = null], "nFires"))

TimerFire ==
    /\ proc = "running"
    /\ hist.nFires < MaxFires
    /\ \E t \in timers : Commit(timerCallback(World, t))

\* The PUT /api/state route up to its await saveState()
\* or, when applying the body throws, up to the 400 of its catch block
onPutState(w, body) ==
    LET w1 == Count([w EXCEPT !.hist.fresh = FALSE,
                              !.state = putState(@, body),
                              !.ev = [IF "rotationSchedule" \in DOMAIN body
                                      THEN ReplacedSchedule ELSE @ EXCEPT !.body = body]],
                    "nCalls")
    IN  IF putStateThrows(w.state, body)
        THEN [w1 EXCEPT !.ev.status = 400]
        ELSE saveState(w1, "api", "A98", TRUE, null, 0)

\* The PUT /api/rotation/schedule route up to its await saveState(), or to
\* the 400 of its catch block when the schedule in memory has no length
onPutSchedule(w, schedule) ==
    IF w.state.rotationSchedule = NullSchedule
    THEN Count([w EXCEPT !.ev.status = 400], "nCalls")
    ELSE saveState(Count([w EXCEPT !.hist.fresh = FALSE,
                                   !.state = putRotationSchedule(@, schedule),
                                   !.ev = ReplacedSchedule],
                         "nCalls"),
                   "api", "A178", TRUE, null, 0)

\* The PUT /api/rotation/cameras route up to its await saveState()
onPutCameras(w, cameraIds) ==
    saveState(Count([w EXCEPT !.hist.fresh = FALSE,
                              !.state = putRotationCameras(@, cameraIds)],
                    "nCalls"),
              "api", "A195", TRUE, null, 0)

\* PUT /api/state with a parsed body, while fewer than max calls were made
PutStateN(max) ==
    /\ Alive
    /\ hist.nCalls < max
    /\ \E body \in StateBodies : Commit(onPutState(World, body))

PutState == PutStateN(MaxCalls)

\* PUT /api/rotation/schedule
PutScheduleN(max) ==
    /\ Alive
    /\ hist.nCalls < max
    /\ \E schedule \in Schedules : Commit(onPutSchedule(World, schedule))

PutSchedule == PutScheduleN(MaxCalls)

\* PUT /api/rotation/cameras
PutCamerasN(max) ==
    /\ Alive
    /\ hist.nCalls < max
    /\ \E cameraIds \in CameraIdLists : Commit(onPutCameras(World, cameraIds))

PutCameras == PutCamerasN(MaxCalls)

Without(w, t) == [w EXCEPT !.tasks = @ (-) SetToBag({t})]

Failing(w, ok) == IF ok THEN w ELSE Count(w, "nFail")

\* saveState's write settles.  On success the file holds the serialised
\* record and the event is emitted if asked for; on failure (mkdir or
\* write throws) the catch block only logs.
saveSettled(w0, t, ok) ==
    LET w == [Failing(Without(w0, t), ok) EXCEPT !.ev.pc = t.pc, !.ev.dur = t.duration,
                                                    !.ev.wrFail = ~ok]
        w1 == [w EXCEPT !.persisted = JSONStringify(w.state)]
    IN  IF ok
        THEN afterSave(IF t.emitEvent THEN emit(w1) ELSE w1, t)
        ELSE afterSave(w, t)

SaveDone ==
    /\ Alive
    /\ \E t \in BagToSet(tasks), ok \in BOOLEAN :
         /\ t.io = "save"
         /\ ok \/ hist.nFail < MaxFail
         /\ Commit(saveSettled(World, t, ok))

\* The switch request settles (ok: 2xx response; otherwise error or
\* timeout); the clock has moved on
fetchSettled(w0, t, ok) ==
    LET w == [Failing(Without(w0, t), ok)
                 EXCEPT !.hist.now = @ + 1, !.ev.swId = t.sourceId, !.ev.swOk = ok,
                        !.ev.pc = t.pc]
    IN  afterFetch(w, t, ok)

FetchDone ==
    /\ Alive
    /\ \E t \in BagToSet(tasks), ok \in BOOLEAN :
         /\ t.io = "fetch"
         /\ ok \/ hist.nFail < MaxFail
         /\ Commit(fetchSettled(World, t, ok))

\* Variant of the SIGINT handler without Deno.exit(0)
SigintNoExit(w) == cancelCurrentTimer([w EXCEPT !.shouldStop = TRUE])

\* The SIGINT handler installed by runRotationLoop
sigintHandler(w) == DenoExit(cancelCurrentTimer([w EXCEPT !.shouldStop = TRUE]))

\* The operator's Ctrl+C once the handler is installed
Sigint ==
    /\ proc = "running"
    /\ Commit(sigintHandler(World))

Next ==
    \/ Main
    \/ Start
    \/ TimerFire
    \/ PutState
    \/ PutSchedule
    \/ PutCameras
    \/ SaveDone
    \/ FetchDone

Spec == Init /\ [][Next]_vars

\* main awaits sleep(1000) and then calls runRotationLoop: once the API
\* server is up, Start is taken
SpecFair == Spec /\ WF_vars(Start)

\* Source ids of PUT /api/source/active requests: a camera of the source
\* list, and an id the pipeline does not know
ManualIds == {2, 5}

\* The PUT /api/source/active route up to its await getSources()
onPutSourceActive(w, id) ==
    Suspend(Count([w EXCEPT !.ev.pc = "A128"], "nCalls"),
            Task("api", "A129", "sources", FALSE, id, 0))

PutSourceActive ==
    /\ Alive
    /\ hist.nCalls < MaxCalls
    /\ \E id \in ManualIds : Commit(onPutSourceActive(World, id))

\* Variant of sourcesSettled that does not look the id up
sourcesSettledUnchecked(w0, t, ok) ==
    LET w == [Failing(Without(w0, t), ok) EXCEPT !.ev.pc = t.pc, !.ev.srcFail = ~ok]
    IN  IF ~ok
        THEN [w EXCEPT !.ev.status = 500]
        ELSE switchToSource(w, "api", "A145", t.sourceId, 0)

\* The route after getSources() settles (ok: the pipeline answered with
\* its list; otherwise getSources returned null)
sourcesSettled(w0, t, ok) ==
    LET w == [Failing(Without(w0, t), ok) EXCEPT !.ev.pc = t.pc, !.ev.srcFail = ~ok]
        source == { x \in SeqToSet(w.hist.provider) : x.id = t.sourceId }
    IN  IF ~ok
        THEN [w EXCEPT !.ev.status = 500]
        ELSE IF source = {}
        THEN [w EXCEPT !.ev.status = 404]
        ELSE switchToSource(w, "api", "A145", t.sourceId, 0)

SourcesDone ==
    /\ Alive
    /\ \E t \in BagToSet(tasks), ok \in BOOLEAN :
         /\ t.io = "sources"
         /\ ok \/ hist.nFail < MaxFail
         /\ Commit(sourcesSettled(World, t, ok))

NextManual == Next \/ PutSourceActive \/ SourcesDone

SpecManual == Init /\ [][NextManual]_vars

\* Bodies of PUT /api/state whose rotationSchedule is JSON null
MalformedBodies ==
    { [rotationEnabled |-> b, rotationSchedule |-> NullSchedule] : b \in BOOLEAN }

\* PUT /api/state with a body that is not JSON (request.json() rejects and
\* the catch block answers 400), or with one of MalformedBodies
PutStateMalformed ==
    /\ Alive
    /\ hist.nCalls < MaxCalls
    /\ \/ Commit(Count([World EXCEPT !.ev.status = 400], "nCalls"))
       \/ \E body \in MalformedBodies : Commit(onPutState(World, body))

NextMalformed == Next \/ PutStateMalformed

SpecMalformed == Init /\ [][NextMalformed]_vars

\* main's await loadState()
Load ==
    /\ proc = "loading"
    /\ Commit([World EXCEPT !.proc = "starting", !.state = loadState(@, persisted)])

\* Startup up to the loaded record, over every snapshot of LoadSnapshots
SpecLoad == InitLoad /\ [][Load]_vars

\* handleAPIRequest for a request whose Authorization header is one of
\* BadHeaders: the health check is answered without authentication, every
\* other request is authenticated first and routed only when accepted
\* (routes other than GET /api/state and the configuration routes are not
\* followed further)
BadTokenRequest ==
    /\ Alive
    /\ \E endpoint \in Endpoints, authHeader \in BadHeaders :
         LET answer(w, code) == [w EXCEPT !.ev.ep = endpoint, !.ev.status = code]
         IN  IF endpoint = "GET /api/health"
             THEN Commit(answer(World, 200))
             ELSE IF ~authenticateRequest(authHeader)
             THEN Commit(answer(World, 401))
             ELSE CASE endpoint = "PUT /api/state" ->
                         \E body \in StateBodies :
                             Commit(answer(onPutState(World, body), 0))
                    [] endpoint = "PUT /api/rotation/schedule" ->
                         \E schedule \in Schedules :
                             Commit(answer(onPutSchedule(World, schedule), 0))
                    [] endpoint = "PUT /api/rotation/cameras" ->
                         \E cameraIds \in CameraIdLists :
                             Commit(answer(onPutCameras(World, cameraIds), 0))
                    [] endpoint = "GET /api/state" -> Commit(answer(World, 200))
                    [] endpoint = "PUT /api/health" -> Commit(answer(World, 404))
                    [] OTHER -> Commit(answer(World, 0))

\* The same program with requests that carry no valid token
NextAuth == Next \/ BadTokenRequest

SpecAuth == Init /\ [][NextAuth]_vars

\* The same turns for behaviours of unbounded length: timers fire any
\* number of times, and the counts of what has happened (other than the
\* requests made and the failures injected, which stay bounded) and the
\* clock are not kept
Unkept(h) ==
    [h EXCEPT !.nFires = 0, !.nEmit = 0, !.nNotified = 0, !.nRuns = 0, !.nSwitchReq = 0,
              !.now = 0, !.lastReqIdx = null, !.fresh = FALSE, !.mark = FALSE]

CommitLive(w) == Commit([w EXCEPT !.hist = Unkept(@)])

StartLive ==
    /\ proc = "serving"
    /\ CommitLive(processRotation([World EXCEPT !.proc = "running",
                                                !.listeners = on(@, "stateChangeHandler")]))

TimerFireLive ==
    /\ proc = "running"
    /\ \E t \in timers : CommitLive(timerCallback(World, t))

SaveDoneLive ==
    /\ Alive
    /\ \E t \in BagToSet(tasks), ok \in BOOLEAN :
         /\ t.io = "save"
         /\ ok \/ hist.nFail < MaxFail
         /\ CommitLive(saveSettled(World, t, ok))

FetchDoneLive ==
    /\ Alive
    /\ \E t \in BagToSet(tasks), ok \in BOOLEAN :
         /\ t.io = "fetch"
         /\ ok \/ hist.nFail < MaxFail
         /\ CommitLive(fetchSettled(World, t, ok))

NextLive ==
    \/ Main
    \/ StartLive
    \/ TimerFireLive
    \/ PutState
    \/ PutSchedule
    \/ PutCameras
    \/ SaveDoneLive
    \/ FetchDoneLive

\* An armed timer that is not cleared expires, the state-file write
\* settles, and the switch request settles (its fetch is aborted after
\* 5 s)
SpecLive ==
    /\ InitFrom(LiveSnapshots)
    /\ [][NextLive]_vars
    /\ WF_vars(TimerFireLive)
    /\ WF_vars(SaveDoneLive)
    /\ WF_vars(FetchDoneLive)

\* Other client code of the state module registers a listener
On ==
    /\ Alive
    /\ \E l \in ListenerNames \ {"stateChangeHandler"} :
         /\ l \notin listeners
         /\ Commit([World EXCEPT !.listeners = on(@, l), !.hist.removed = @ \ {l}])

\* and removes it
Off ==
    /\ Alive
    /\ \E l \in ListenerNames \ {"stateChangeHandler"} :
         /\ l \in listeners
         /\ Commit([World EXCEPT !.listeners = off(@, l), !.hist.removed = @ \cup {l}])

\* The same program with listeners that come and go
NextListeners == Next \/ On \/ Off

SpecListeners == Init /\ [][NextListeners]_vars

\* The rotation loop over every source list of AnySourceLists, without
\* configuration requests
NextSources ==
    \/ MainFrom(AnySourceLists)
    \/ Start
    \/ TimerFire
    \/ SaveDone
    \/ FetchDone

SpecSources == InitFrom(SelectionSnapshots) /\ [][NextSources]_vars

\* At the pipeline a source is enabled or disabled, or disappears
ProviderChange ==
    /\ Alive
    /\ \E i \in DOMAIN hist.provider :
         \/ Commit([World EXCEPT !.hist.provider[i].enabled = ~@])
         \/ Commit([World EXCEPT !.hist.provider =
                        SubSeq(@, 1, i - 1) \o SubSeq(@, i + 1, Len(@))])

\* The rotation loop while the pipeline's source list changes
NextProvider == NextSources \/ ProviderChange

SpecProvider == InitFrom(SelectionSnapshots) /\ [][NextProvider]_vars

\* The same program with the operator's Ctrl+C
NextStop == Next \/ Sigint

SpecStop == Init /\ [][NextStop]_vars

\* The same program with up to MaxBurst configuration requests
NextBurst ==
    \/ Main
    \/ Start
    \/ TimerFire
    \/ PutStateN(MaxBurst)
    \/ PutScheduleN(MaxBurst)
    \/ PutCamerasN(MaxBurst)
    \/ SaveDone
    \/ FetchDone

SpecBurst == Init /\ [][NextBurst]_vars

(***************************************************************************)
(* Properties                                                              *)
(***************************************************************************)
ConfigSaves == { t \in BagToSet(tasks) : t.kind = "api" /\ t.io = "save" }

\* C1: operational mutations never notify.  As long as no configuration
\* request has been made no stateChanged event has been emitted or
\* delivered, and every turn in which a switch updates currentSourceId /
\* lastSwitchTime or an operational saveState(false) returns leaves the
\* number of emitted and delivered events unchanged.
C1_OperationalNeverNotifies ==
    /\ [](hist.nCalls = 0 => hist.nEmit = 0 /\ hist.nNotified = 0)
    /\ [][ (\/ ev'.opSave
            \/ state'.currentSourceId # state.currentSourceId
            \/ state'.lastSwitchTime # state.lastSwitchTime)
           => hist'.nEmit = hist.nEmit /\ hist'.nNotified = hist.nNotified ]_vars

\* C1 witness: a rotation that has switched and saved operationally, with
\* no configuration request so far
C1_Witness ==
    /\ hist.nCalls = 0
    /\ ev.opSave
    /\ state.currentSourceId = 2
    /\ hist.nSwitchReq = 2
    /\ hist.nFires = 1

\* C2 (as claimed): once every configuration saveState() has returned, the
\* number of stateChanged events emitted equals the number of
\* configuration mutations.
C2_ExactlyNNotifications ==
    ConfigSaves = {} => hist.nEmit = hist.nCalls

\* C3 (as claimed): every turn that answers a configuration request with
\* 200 has emitted exactly one stateChanged event for it.
C3_OneNotificationPerCall ==
    [][ev'.cfgOk => hist'.nEmit = hist.nEmit + 1]_vars

\* C4 (as claimed): every pending timer is the one currentTimer refers
\* to, so at most one timer is pending.
C4_AtMostOneTimer ==
    /\ Cardinality(timers) <= 1
    /\ \A t \in timers : t.id = currentTimer

\* Triggers of the scheduler so far: the startup run, delivered change
\* notifications, timer expiries
Triggers == (IF listeners = {} THEN 0 ELSE 1) + hist.nNotified + hist.nFires

\* C5: no write-notify-reevaluate loop.  The scheduler has never issued
\* more switch requests than it had triggers (nor than processRotation
\* runs), and a turn in which a switch settles or an operational save
\* returns starts no processRotation run.
C5_NoFeedbackLoop ==
    /\ [](hist.nSwitchReq <= Triggers /\ hist.nSwitchReq <= hist.nRuns)
    /\ [][ (ev'.swId # null \/ ev'.opSave) => hist'.nRuns = hist.nRuns ]_vars

\* C5 witness: a scheduler switch has succeeded and its operational save
\* has returned after several triggers
C5_Witness ==
    /\ ev.opSave
    /\ hist.nSwitchReq >= 3
    /\ hist.nNotified = 1
    /\ hist.nFires = 1

\* C6 (as claimed): the index is null whenever rotation is disabled or
\* the schedule is empty.
C6_IndexNullWhenIdle ==
    (~state.rotationEnabled \/ Len(state.rotationSchedule) = 0)
        => state.currentScheduleIndex = null

\* C7 (as claimed): a non-null index lies in [0, len(rotationSchedule)).
C7_IndexInRange ==
    state.currentScheduleIndex # null
        => /\ 0 <= state.currentScheduleIndex
           /\ state.currentScheduleIndex < Len(state.rotationSchedule)

SchedLen == Len(state.rotationSchedule)

\* C8 (as claimed): after a request replaced the schedule, if the length
\* changed or the previous index is not a valid position of the new
\* schedule, the index is 0 (new schedule non-empty) or null (empty).
C8_ResetAsClaimed ==
    (/\ ev.setSched
     /\ \/ ev.prevLen # SchedLen
        \/ ~(0 <= ev.prevIdx /\ ev.prevIdx < SchedLen))
        => state.currentScheduleIndex = IF SchedLen > 0 THEN 0 ELSE null

\* C8 (amended): after a request (PUT /api/state or PUT
\* /api/rotation/schedule) replaced the schedule, the index is reset to 0
\* (new schedule non-empty) or null (empty) exactly when it was non-null
\* before and the length changed or the index was >= the new length;
\* otherwise, in particular when it was null, it is what it was.
C8_ResetWhenNonNull ==
    ev.setSched
        => state.currentScheduleIndex =
             IF /\ ev.prevIdx # null
                /\ (ev.prevLen # SchedLen \/ JSGe(ev.prevIdx, SchedLen))
             THEN (IF SchedLen > 0 THEN 0 ELSE null)
             ELSE ev.prevIdx

\* C8 witness: the index was 1 in a schedule of two items, the schedule
\* was replaced by one of a single item, the index is 0
C8_Witness ==
    /\ ev.setSched
    /\ ev.prevIdx = 1
    /\ ev.prevLen = 2
    /\ SchedLen = 1
    /\ state.currentScheduleIndex = 0

\* C9: currentSourceId and lastSwitchTime change only in the turn in which
\* a switch request settles with a 2xx response, and then become the
\* requested source and the time of that turn; a failed request, and every
\* other turn, leaves both as they were.
C9_SuccessfulSwitchOnly ==
    [][ IF ev'.swId # null /\ ev'.swOk
        THEN /\ state'.currentSourceId = ev'.swId
             /\ state'.lastSwitchTime = hist'.now
             /\ hist'.now > hist.now
        ELSE /\ state'.currentSourceId = state.currentSourceId
             /\ state'.lastSwitchTime = state.lastSwitchTime ]_vars

\* C9 witness: a switch request to another source has just failed and the
\* record still names the source of the last successful switch
C9_Witness ==
    /\ ev.swId # null
    /\ ~ev.swOk
    /\ state.currentSourceId # null
    /\ state.currentSourceId # ev.swId
    /\ state.lastSwitchTime = hist.now - 1

AllAvailable ==
    \A i \in DOMAIN state.rotationSchedule :
        \E s \in SeqToSet(getAvailableSources(state, sources)) :
            s.id = state.rotationSchedule[i].cameraId

Rotating ==
    /\ hist.nCalls = 0
    /\ state.rotationEnabled
    /\ SchedLen > 0
    /\ AllAvailable

\* C10: with rotation enabled, every scheduled camera available and no
\* configuration request, each switch request of the scheduler is for the
\* item that follows (cyclically) the item of its previous request, and
\* whenever a timer is pending it is the only one, its delay is the
\* durationSeconds of the item of the last switch request, and the index
\* is the position after that item.
C10_ScheduleOrder ==
    /\ [](Rotating /\ timers # {}
            => /\ hist.lastReqIdx # null
               /\ timers = {[id |-> currentTimer,
                             delay |-> state.rotationSchedule[hist.lastReqIdx + 1]
                                            .durationSeconds * 1000]}
               /\ state.currentScheduleIndex = (hist.lastReqIdx + 1) % SchedLen)
    /\ [][ Rotating /\ hist'.nSwitchReq = hist.nSwitchReq + 1
            => /\ \E t \in BagToSet(tasks') :
                    /\ t.io = "fetch"
                    /\ t.sourceId = state.rotationSchedule[hist'.lastReqIdx + 1].cameraId
               /\ hist.lastReqIdx # null
                    => hist'.lastReqIdx = (hist.lastReqIdx + 1) % SchedLen ]_vars

\* C10 witness (schedule [{1,60},{2,120}] from an empty index): camera 1
\* was switched to, then after one expiry camera 2; the index has wrapped
\* to 0 and the pending timer is 120 s
C10_Witness ==
    /\ hist.nCalls = 0
    /\ persisted # <<>>
    /\ hist.nFires = 1
    /\ hist.lastReqIdx = 1
    /\ state.currentSourceId = 2
    /\ state.currentScheduleIndex = 0
    /\ timers = {[id |-> 1, delay |-> 120000]}

\* processRotation runs suspended at an await
SuspendedRuns == { t \in BagToSet(tasks) : t.kind = "rot" }

RunsInProgress == BagCardinality([t \in SuspendedRuns |-> CopiesIn(t, tasks)])

FixedMode ==
    /\ proc = "running"
    /\ ~state.rotationEnabled
    /\ state.fixedSourceId # null
    /\ \E s \in SeqToSet(sources) : s.id = state.fixedSourceId /\ s.enabled

\* C11 (as claimed): with rotation disabled and an enabled fixed source,
\* once a re-evaluation of the current configuration has run and nothing
\* is in progress, no timer is armed and the index is null (the scheduler
\* is idle); and the turn in which a re-evaluation reaches
\* handleFixedSource issues exactly one switch request, to the fixed
\* source, if currentSourceId differs from it, and none otherwise.
C11_FixedSourceIdle ==
    /\ [](FixedMode /\ hist.fresh /\ tasks = EmptyBag
            => /\ timers = {}
               /\ currentTimer = null
               /\ state.currentScheduleIndex = null)
    /\ [][ ev'.fixed /\ FixedMode'
            => IF state'.currentSourceId # state'.fixedSourceId
               THEN /\ hist'.nSwitchReq = hist.nSwitchReq + 1
                    /\ \E t \in BagToSet(tasks') :
                         t.io = "fetch" /\ t.pc = "L54" /\ t.sourceId = state'.fixedSourceId
               ELSE hist'.nSwitchReq = hist.nSwitchReq ]_vars

\* The schedule item at position k (0-based) resolves to an available source
Resolves(k) ==
    \E s \in SeqToSet(getAvailableSources(state, sources)) :
        s.id = state.rotationSchedule[k + 1].cameraId

\* A timer armed in this step
NewTimers == timers' \ timers

\* C12: with rotation enabled, the turn in which a run looks up a schedule
\* item whose camera is not among the available sources (disabled, not
\* srt, or excluded by selectedCameraIds) issues no switch request, moves
\* the index to the position after that item (modulo the schedule length)
\* and saves; and when that save returns the run arms exactly one timer,
\* of 5 seconds whatever the item's durationSeconds, and issues no switch.
C12_UnresolvedSkipsAndRetries ==
    /\ [][ (state.rotationEnabled /\ ev'.lookup # null /\ ~Resolves(ev'.lookup))
            => /\ hist'.nSwitchReq = hist.nSwitchReq
               /\ state.currentScheduleIndex # null => ev'.lookup = state.currentScheduleIndex
               /\ state'.currentScheduleIndex = (ev'.lookup + 1) % SchedLen
               /\ \E t \in BagToSet(tasks') :
                    /\ t.pc = "L136"
                    /\ CopiesIn(t, tasks') = CopiesIn(t, tasks) + 1 ]_vars
    /\ [][ ev'.pc = "L136"
            => /\ hist'.nSwitchReq = hist.nSwitchReq
               /\ \E t \in NewTimers :
                    /\ NewTimers = {t}
                    /\ t.delay = RETRY_MS
                    /\ currentTimer' = t.id ]_vars

\* C12 witness: camera 2 is excluded by selectedCameraIds [1]; after the
\* switch to camera 1 its item was skipped, the index wrapped to 0 and the
\* pending timer is the 5 s retry
C12_Witness ==
    /\ ev.pc = "L136"
    /\ state.rotationEnabled
    /\ state.selectedCameraIds = <<1>>
    /\ state.rotationSchedule = <<Item(1, 60), Item(2, 120)>>
    /\ hist.lastReqIdx = 0
    /\ state.currentScheduleIndex = 0
    /\ timers = {[id |-> 1, delay |-> RETRY_MS]}

\* C13 (as claimed): when the switch request for a resolved item failed,
\* the run goes on (the schedule is not aborted), and the timer it arms
\* once its save has returned is the 5 s retry, not the item's
\* durationSeconds.
C13_FailedSwitchRetries ==
    [][ ev'.pc = "L122f"
        => \E t \in NewTimers :
             /\ NewTimers = {t}
             /\ t.delay = RETRY_MS
             /\ currentTimer' = t.id ]_vars

\* C14 (as claimed): a failed fetch of the source list does not end the
\* process; a 5 s retry timer is armed after it.
C14_SourceFetchFailureRetried ==
    ev.srcFail
        => /\ proc # "exited"
           /\ \E t \in timers : t.delay = RETRY_MS /\ t.id = currentTimer

\* C15 (as claimed): a processRotation run starts only when no other run
\* is suspended at an await (a notification arriving meanwhile is
\* deferred), so at most one run is in progress at any time.
C15_RunsNeverOverlap ==
    /\ [](RunsInProgress <= 1)
    /\ [][hist'.nRuns > hist.nRuns => RunsInProgress = 0]_vars

\* C16 (as claimed): when a change notification is delivered while a run
\* is in progress, and an earlier notification was already delivered
\* during that run (no run has returned since), the later notification
\* starts no run of its own: the re-evaluations are coalesced into one.
C16_BurstCoalesced ==
    [][ (/\ hist'.nNotified = hist.nNotified + 1
         /\ RunsInProgress > 0
         /\ hist.mark)
        => hist'.nRuns = hist.nRuns ]_vars

\* C17 (as claimed): a schedule item with a non-positive durationSeconds
\* never reaches the state (the request carrying it is rejected and the
\* prior schedule kept), so every item of rotationSchedule has a positive
\* duration.
C17_NonPositiveDurationRejected ==
    \A i \in DOMAIN state.rotationSchedule :
        state.rotationSchedule[i].durationSeconds > 0

\* C18 (as claimed): when the state-file write of a configuration
\* request's saveState() fails, the request is still answered, the
\* configuration fields in memory stay as the request set them, its
\* stateChanged event is emitted and, once the listener is registered, a
\* re-evaluation starts.
C18_FailedWriteStillNotifies ==
    [][ (ev'.wrFail /\ ev'.pc \in {"A98", "A178", "A195"})
        => /\ ev'.cfgOk
           /\ \A f \in {"rotationEnabled", "fixedSourceId", "selectedCameraIds",
                         "rotationSchedule"} : state'[f] = state[f]
           /\ hist'.nEmit = hist.nEmit + 1
           /\ listeners # {} => hist'.nRuns = hist.nRuns + 1 ]_vars

\* C19: from the shutdown signal on no timer is pending, and neither the
\* step of the signal nor any later step issues a scheduler switch request
\* or changes currentSourceId.
C19_ShutdownKeepsSource ==
    /\ [](shouldStop => timers = {} /\ currentTimer = null)
    /\ [][ shouldStop'
            => /\ hist'.nSwitchReq = hist.nSwitchReq
               /\ state'.currentSourceId = state.currentSourceId ]_vars

\* C19 witness: the signal came after the switch to camera 1, while the
\* 60 s timer armed for it was pending (it never fired); the timer is gone
\* and camera 1 is still the current source
C19_Witness ==
    /\ shouldStop
    /\ proc = "exited"
    /\ hist.nCalls = 0
    /\ hist.nFires = 0
    /\ hist.lastReqIdx = 0
    /\ state.currentScheduleIndex = 1
    /\ state.currentSourceId = 1
    /\ timers = {}

\* C20 (as claimed): whenever no operation is in progress (every request
\* and every processRotation run has returned), the state file has been
\* written and no write or request has failed, the file holds the
\* in-memory record, field for field.
C20_PersistedEqualsMemory ==
    (/\ proc \in {"serving", "running"}
     /\ tasks = EmptyBag
     /\ hist.nFail = 0
     /\ DOMAIN persisted = Fields)
        => persisted = state

\* The record a restart would load from a file holding st
Reloaded(st) == loadState(defaultState, JSONStringify(st))

\* C21: round trip.  Saving the record and loading the file into a fresh
\* default record gives back the same record, field by field.
C21_RoundTrip == \A f \in Fields : Reloaded(state)[f] = state[f]

\* C22: loadState merges the snapshot over the defaults.  A field present in
\* the file has the file's value, a field missing from it keeps its default
\* (false, null, empty list), and an absent file leaves the whole default
\* record.
C22_LoadMergesOverDefaults ==
    proc = "starting" =>
        /\ \A f \in DOMAIN persisted : state[f] = persisted[f]
        /\ "rotationEnabled" \notin DOMAIN persisted => state.rotationEnabled = FALSE
        /\ \A f \in Nullable \ DOMAIN persisted : state[f] = null
        /\ \A f \in {"selectedCameraIds", "rotationSchedule"} \ DOMAIN persisted :
               state[f] = <<>>
        /\ persisted = <<>> => state = defaultState

C22_Witness ==
    /\ proc = "starting"
    /\ DOMAIN persisted = {"rotationEnabled", "rotationSchedule", "currentScheduleIndex"}
    /\ state.rotationEnabled /\ state.rotationSchedule = <<Item(1, 60)>>
    /\ state.currentScheduleIndex = 0
    /\ state.fixedSourceId = null /\ state.selectedCameraIds = <<>>

\* C23: every endpoint except GET /api/health requires the token.  A request
\* whose Authorization header is missing or carries a wrong token is
\* answered 401 and changes nothing: no state field, no file content, no
\* notification, no switch request, no timer, no pending continuation.
C23_BadTokenRejected ==
    [][ (ev'.ep # "" /\ ev'.ep # "GET /api/health") =>
            /\ ev'.status = 401
            /\ UNCHANGED <<proc, state, persisted, sources, currentTimer, timers,
                           shouldStop, listeners, tasks>>
            /\ hist'.nEmit = hist.nEmit
            /\ hist'.nNotified = hist.nNotified
            /\ hist'.nSwitchReq = hist.nSwitchReq ]_vars

C23_Witness ==
    /\ ev.ep = "PUT /api/state" /\ ev.status = 401
    /\ proc = "running" /\ state.rotationEnabled /\ timers # {}

\* Every switch so far was requested by the scheduler and answered 2xx, and
\* none is in flight: no request was made, nothing failed
OnlySchedulerSwitches ==
    /\ hist.nCalls = 0 /\ hist.nFail = 0
    /\ hist.nSwitchReq > 0
    /\ \A t \in BagToSet(tasks) : t.io # "fetch"

\* C24: currentScheduleIndex is the index of the item on display.  Whenever
\* rotation is enabled and the last switch was a successful scheduler
\* switch, the schedule item at currentScheduleIndex names currentSourceId.
C24_IndexIsDisplayedItem ==
    (proc = "running" /\ state.rotationEnabled /\ OnlySchedulerSwitches) =>
        /\ state.currentScheduleIndex \in 0..(SchedLen - 1)
        /\ state.rotationSchedule[state.currentScheduleIndex + 1].cameraId
               = state.currentSourceId

ConfigFields == {"rotationEnabled", "fixedSourceId", "selectedCameraIds", "rotationSchedule"}

\* C25: frame of PUT /api/state.  The handler gives each configuration
\* field named by the body the body's value and leaves the others as they
\* were; currentSourceId and lastSwitchTime keep their values even when the
\* body names them; currentScheduleIndex changes only by the schedule reset
\* (a new schedule, a non-null index, a different length or an index past
\* the end: 0, or null for an empty schedule).
C25_PutStateFrame ==
    [][ ev'.body # <<>> =>
          LET body == ev'.body
              newLen == Len(state'.rotationSchedule)
          IN  /\ \A f \in ConfigFields :
                     state'[f] = IF f \in DOMAIN body THEN body[f] ELSE state[f]
              /\ state'.currentSourceId = state.currentSourceId
              /\ state'.lastSwitchTime = state.lastSwitchTime
              /\ state'.currentScheduleIndex # state.currentScheduleIndex =>
                     /\ "rotationSchedule" \in DOMAIN body
                     /\ state.currentScheduleIndex # null
                     /\ \/ newLen # SchedLen
                        \/ JSGe(state.currentScheduleIndex, newLen)
                     /\ state'.currentScheduleIndex = IF newLen > 0 THEN 0 ELSE null ]_vars

C25_Witness ==
    /\ "currentSourceId" \in DOMAIN ev.body
    /\ "rotationSchedule" \notin DOMAIN ev.body
    /\ state.currentSourceId = 1 /\ ev.body.currentSourceId = 2
    /\ state.lastSwitchTime # null /\ state.lastSwitchTime # ev.body.lastSwitchTime
    /\ ~state.rotationEnabled /\ state.rotationSchedule # <<>>

\* Some item of the schedule names an available source
SomeAvailable == \E k \in 0..(SchedLen - 1) : Resolves(k)

RotationOn == proc = "running" /\ state.rotationEnabled /\ SomeAvailable

\* A run has just skipped the item it looked up
Skipped == ev.lookup # null /\ ~Resolves(ev.lookup)

\* The pipeline has just confirmed a switch requested by the scheduler for
\* a schedule item
Switched == ev.pc = "L118" /\ ev.swOk

\* C26: an unavailable camera never blocks the rotation.  While rotation is
\* enabled and some schedule item names an available camera, a skipped
\* item is always followed by a successful switch to a scheduled camera
\* (unless the configuration stops being such, or the process ends).
C26_SkipLeadsToSwitch == (RotationOn /\ Skipped) ~> (Switched \/ ~RotationOn)

\* The second of two items skipped in a row
C26_Witness ==
    /\ RotationOn /\ Skipped
    /\ SchedLen = 3 /\ ev.lookup = 1 /\ state.currentScheduleIndex = 2
    /\ timers = {}

\* C27: a saveState() that notifies invokes every listener registered for
\* stateChanged exactly once, invokes no other, and a listener removed with
\* off() is invoked by no later notification.
C27_EveryListenerOnce ==
    [][ hist'.nEmit # hist.nEmit =>
          /\ \A l \in ListenerNames : ev'.calls[l] = IF l \in listeners THEN 1 ELSE 0
          /\ \A l \in hist.removed : ev'.calls[l] = 0 ]_vars

C27_Witness ==
    /\ ev.calls["stateChangeHandler"] = 1 /\ ev.calls["listener1"] = 1
    /\ "listener2" \in hist.removed /\ ev.calls["listener2"] = 0
    /\ hist.nEmit = 1

\* Rotation is disabled and the fixed source is not usable (null, unknown
\* or not enabled), or rotation is enabled and the schedule is empty
IdleConfig ==
    \/ /\ ~state.rotationEnabled
       /\ \/ state.fixedSourceId = null
          \/ ~\E s \in SeqToSet(sources) : s.id = state.fixedSourceId /\ s.enabled
    \/ /\ state.rotationEnabled
       /\ state.rotationSchedule = <<>>

\* C28 (as claimed): in the idle states a re-evaluation issues no switch
\* request, cancels any armed timer and arms none; and once a
\* re-evaluation of the current configuration has run and nothing is in
\* progress the scheduler is idle: no timer is armed.
C28_IdleStates ==
    /\ [][ (IdleConfig' /\ (ev'.fixed \/ (hist'.nRuns # hist.nRuns /\ state'.rotationEnabled)))
            => /\ hist'.nSwitchReq = hist.nSwitchReq
               /\ NewTimers = {}
               /\ currentTimer' = null ]_vars
    /\ [](IdleConfig /\ proc = "running" /\ hist.fresh /\ tasks = EmptyBag
            => timers = {} /\ currentTimer = null)

availableSources == getAvailableSources(state, sources)

\* C29: the eligibility filter.  The available sources are exactly the
\* sources of the list that are enabled and of type srt and, when
\* selectedCameraIds is not empty, whose id is in it: no other source, each
\* one once, in the order of the list.
C29_FilterExact ==
    proc \in {"serving", "running"} =>
        /\ \A s \in SeqToSet(sources) :
               s \in SeqToSet(availableSources) <=>
                   /\ s.enabled
                   /\ s.source_type = "srt"
                   /\ state.selectedCameraIds # <<>> =>
                          \E i \in DOMAIN state.selectedCameraIds :
                              state.selectedCameraIds[i] = s.id
        /\ SeqToSet(availableSources) \subseteq SeqToSet(sources)
        /\ \A i, j \in DOMAIN availableSources :
               i < j => \E k, l \in DOMAIN sources :
                            /\ k < l
                            /\ sources[k] = availableSources[i]
                            /\ sources[l] = availableSources[j]

\* Camera 2 is enabled and of type srt but not selected; a run has looked
\* its item up and skipped it
C29_Witness ==
    /\ proc = "running"
    /\ state.selectedCameraIds = <<1>>
    /\ Len(sources) = 2 /\ sources[1].id = 2
    /\ sources[1].enabled /\ sources[1].source_type = "srt"
    /\ availableSources = <<sources[2]>>
    /\ ev.lookup = 1 /\ hist.nFires = 1 /\ hist.nSwitchReq = 1

\* The camera of the schedule item at position k (0-based) is in the source
\* list, enabled, and reported unhealthy
Unhealthy(k) ==
    \E s \in SeqToSet(sources) :
        /\ s.id = state.rotationSchedule[k + 1].cameraId
        /\ s.enabled
        /\ ~s.is_healthy

\* C30 (as claimed): with rotation enabled, a schedule item whose camera is
\* enabled but unhealthy does not resolve: the run that looks it up issues
\* no switch request, moves the index past the item and saves, to retry
\* after 5 s.
C30_UnhealthySkipped ==
    [][ (state.rotationEnabled /\ ev'.lookup # null /\ Unhealthy(ev'.lookup))
            => /\ hist'.nSwitchReq = hist.nSwitchReq
               /\ state'.currentScheduleIndex = (ev'.lookup + 1) % SchedLen
               /\ \E t \in BagToSet(tasks') :
                    /\ t.pc = "L136"
                    /\ CopiesIn(t, tasks') = CopiesIn(t, tasks) + 1 ]_vars

\* The schedule item at position k (0-based) resolves against the list the
\* pipeline reports now
ResolvesAtProvider(k) ==
    \E s \in SeqToSet(getAvailableSources(state, hist.provider)) :
        s.id = state.rotationSchedule[k + 1].cameraId

\* C31 (as claimed): the source list is fetched for each re-evaluation.  A
\* run that looks up a schedule item requests the switch exactly when the
\* item's camera is available in the list the pipeline reports at that
\* time.
C31_FreshSourceList ==
    [][ (state.rotationEnabled /\ ev'.lookup # null)
            => (hist'.nSwitchReq = hist.nSwitchReq + 1 <=> ResolvesAtProvider(ev'.lookup)) ]_vars

\* C32 (as claimed): re-evaluation is idempotent with respect to timers.
\* Once two change notifications have been delivered and every run they
\* started has completed, the only pending timer is the one the latest
\* evaluation armed: the one currentTimer refers to.
C32_OnlyLatestTimer ==
    (proc = "running" /\ hist.nNotified = 2 /\ tasks = EmptyBag /\ hist.nFires = 0)
        => \A t \in timers : timers = {t} /\ t.id = currentTimer

\* C33: a request that replaced the schedule with one of the same length,
\* while the index was a valid position of it, left currentScheduleIndex
\* as it was, whatever cameras the new items name.
C33_SameLengthKeepsIndex ==
    (/\ ev.setSched
     /\ ev.prevLen = SchedLen
     /\ ev.prevIdx # null
     /\ 0 <= ev.prevIdx /\ ev.prevIdx < SchedLen)
        => state.currentScheduleIndex = ev.prevIdx

\* C33 witness: with the index at 1 the schedule of cameras 1 and 2 was
\* replaced by the one of cameras 3 and 4; the index is still 1
C33_Witness ==
    /\ ev.setSched
    /\ ev.prevIdx = 1
    /\ ev.prevLen = 2
    /\ state.rotationSchedule = <<Item(3, 30), Item(4, 0)>>
    /\ state.currentScheduleIndex = 1

\* C34 (as claimed): a failed switch is recovered by the 5 second retry
\* timer in fixed-source mode as well.  While the loop runs with rotation
\* disabled and an enabled fixed source that is not the current source,
\* and the configuration has been evaluated and nothing is in progress,
\* a 5 second timer is pending to try the switch again.
C34_FixedSwitchRetried ==
    (/\ proc = "running"
     /\ FixedMode
     /\ hist.fresh
     /\ tasks = EmptyBag
     /\ state.currentSourceId # state.fixedSourceId)
        => \E t \in timers : t.delay = RETRY_MS

\* C35: no change notification is dropped.  A turn that emits stateChanged
\* while the loop's listener is registered starts a processRotation run in
\* that very turn, which reads the record as it is then (the configuration
\* has been evaluated when the turn ends); and a notification emitted
\* before the listener is registered, while only the API server is up, is
\* followed by the first run of the loop.
C35_NotificationsReevaluated ==
    /\ [][ (hist'.nEmit # hist.nEmit /\ "stateChangeHandler" \in listeners)
            => /\ hist'.nNotified = hist.nNotified + 1
               /\ hist'.nRuns = hist.nRuns + 1
               /\ hist'.fresh ]_vars
    /\ (proc = "serving" /\ hist.nEmit > 0) ~> (hist.nRuns > 0 /\ hist.fresh)

\* C35 witness: one notification was emitted and delivered, and the run it
\* started is the second one
C35_Witness ==
    /\ hist.nEmit = 1
    /\ hist.nNotified = 1
    /\ hist.nRuns = 2
    /\ hist.fresh

\* C36: rotation cannot stall.  When a run that found rotation enabled and
\* a schedule item to process returns (after the save that follows the
\* switch attempt, or the save that follows a skipped item), the timer
\* currentTimer refers to is pending: of the item's durationSeconds when
\* the item resolved, of 5 seconds when it was skipped.
C36_ReturnArmsTimer ==
    (proc = "running" /\ ev.pc \in {"L122", "L122f", "L136"})
        => \E t \in timers :
              /\ t.id = currentTimer
              /\ t.delay = IF ev.pc = "L136" THEN RETRY_MS ELSE ev.dur * 1000

\* C36 witness: a run returned after switching to camera 1 and armed the
\* timer of its 60 seconds
C36_Witness ==
    /\ ev.pc = "L122"
    /\ state.currentSourceId = 1
    /\ ev.dur = 60
    /\ timers = {[id |-> currentTimer, delay |-> 60000]}

\* C37 (as claimed): a request answered 400 leaves the state exactly as it
\* was: no field of the record is changed, nothing is written to the state
\* file and no notification is emitted.
C37_RejectedLeavesState ==
    [][ ev'.status = 400
          => /\ state' = state
             /\ persisted' = persisted
             /\ hist'.nEmit = hist.nEmit ]_vars

\* C38: the scheduler never writes configuration.  A turn in which no
\* request is handled (the first run of the loop, a timer callback, the
\* continuation of a run or of switchToSource after a save or a switch
\* request settles, a notified re-evaluation) leaves rotationEnabled,
\* fixedSourceId, selectedCameraIds and rotationSchedule as they were.
C38_SchedulerKeepsConfig ==
    [][ hist'.nCalls = hist.nCalls
          => \A f \in ConfigFields : state'[f] = state[f] ]_vars

\* C38 witness: the scheduler has switched to camera 2, the second item,
\* writing currentSourceId, and the configuration is the one loaded
C38_Witness ==
    /\ ev.swOk /\ ev.swId = 2
    /\ state.currentSourceId = 2
    /\ state.currentScheduleIndex = 1
    /\ state.rotationEnabled
    /\ state.fixedSourceId = null
    /\ state.rotationSchedule = <<Item(1, 60), Item(2, 120)>>

\* Pending switch requests of PUT /api/source/active
ManualFetches(b) ==
    LET f == { t \in BagToSet(b) : t.kind = "api" /\ t.io = "fetch" }
    IN  BagCardinality([t \in f |-> CopiesIn(t, b)])

\* C39: manual switch.  No turn of a PUT /api/source/active request (the
\* request, the source list arriving, the switch request settling, the
\* save returning) emits a notification, cancels or arms a timer, or
\* changes a configuration field or the index; the turn in which the
\* switch request settles with 2xx sets currentSourceId to the requested
\* id and lastSwitchTime to the time of that turn, and no other turn of
\* the request changes them; and when the source list arrives without the
\* requested id the answer is 404, the record is unchanged and no switch
\* request is issued.
C39_ManualSwitchFrame ==
    [][ ev'.pc \in {"A128", "A129", "A145", "A145s"}
          => /\ hist'.nEmit = hist.nEmit
             /\ timers' = timers
             /\ currentTimer' = currentTimer
             /\ \A f \in ConfigFields \cup {"currentScheduleIndex"} : state'[f] = state[f]
             /\ IF ev'.pc = "A145" /\ ev'.swOk
                THEN /\ state'.currentSourceId = ev'.swId
                     /\ state'.lastSwitchTime = hist'.now
                ELSE /\ state'.currentSourceId = state.currentSourceId
                     /\ state'.lastSwitchTime = state.lastSwitchTime
             /\ \A t \in BagToSet(tasks) :
                  (/\ t.pc = "A129"
                   /\ CopiesIn(t, tasks') < CopiesIn(t, tasks)
                   /\ ~ev'.srcFail
                   /\ \A x \in SeqToSet(hist.provider) : x.id # t.sourceId)
                    => /\ ev'.status = 404
                       /\ state' = state
                       /\ ManualFetches(tasks') = ManualFetches(tasks) ]_vars

\* C39 witness: while the timer of camera 1's 60 seconds is pending, a
\* manual switch to camera 2 succeeded
C39_Witness ==
    /\ ev.pc = "A145" /\ ev.swOk
    /\ state.currentSourceId = 2
    /\ state.currentScheduleIndex = 1
    /\ timers = {[id |-> currentTimer, delay |-> 60000]}

\* C40 (as claimed): while rotation is enabled with a schedule and the
\* index is a position of it, the turn that delivers a change
\* notification cancels the pending timer (no timer that was pending is
\* pending afterwards) and processes the item at currentScheduleIndex at
\* once: it looks that item up and, when its camera is available,
\* requests the switch to it without waiting for a timer.
C40_NotificationReprocesses ==
    [][ (/\ hist'.nNotified # hist.nNotified
         /\ state.rotationEnabled
         /\ state.currentScheduleIndex \in 0..(SchedLen - 1))
          => /\ timers' \cap timers = {}
             /\ ev'.lookup = state.currentScheduleIndex
             /\ IF Resolves(state.currentScheduleIndex)
                THEN /\ hist'.nSwitchReq = hist.nSwitchReq + 1
                     /\ \E t \in BagToSet(tasks') :
                          /\ t.io = "fetch" /\ t.pc = "L118"
                          /\ t.sourceId =
                               state.rotationSchedule[state.currentScheduleIndex + 1].cameraId
                          /\ CopiesIn(t, tasks') > CopiesIn(t, tasks)
                ELSE hist'.nSwitchReq = hist.nSwitchReq ]_vars

====
